---- MODULE Spec2Model ----
(***************************************************************************)
(* Model of the web_shell backend session (backend/src/ws_logic.rs).      *)
(*                                                                         *)
(* Text.  A Rust String is modelled as a sequence of tokens.  A token is   *)
(* either one character that the code treats specially (space, quote,      *)
(* backslash, slash, CR, LF, TAB, and the raw control characters BEL, ESC, *)
(* DEL) or a run of ordinary printable characters (a word such as "cd", a  *)
(* file name such as "d", or the literal text of a message).  A PathBuf is *)
(* the string it was built from; its components are computed from it.      *)
(***************************************************************************)
EXTENDS Integers, Sequences, FiniteSets, TLC

(***************************************************************************)
(* Characters                                                              *)
(***************************************************************************)
SP  == " "
TAB == "<TAB>"
LF  == "<LF>"
CR  == "<CR>"
BEL == "<BEL>"
ESC == "<ESC>"
DEL == "<DEL>"
DQ  == "<DQ>"
SQ  == "<SQ>"
BSL == "<BSL>"
SLASH == "/"
DASH == "-"
DOT == "."
DOTDOT == ".."

EMOJI == "<U+1F389>"
REPLACEMENT == "<U+FFFD>"

\* The code point of a single-character token.  Every other token is a run
\* of printable ASCII characters; it is classified like the letter 'a'.
CharCode(c) ==
    CASE c = TAB   -> 9
      [] c = LF    -> 10
      [] c = CR    -> 13
      [] c = BEL   -> 7
      [] c = ESC   -> 27
      [] c = DEL   -> 127
      [] c = SP    -> 32
      [] c = DQ    -> 34
      [] c = SQ    -> 39
      [] c = DASH  -> 45
      [] c = SLASH -> 47
      [] c = BSL   -> 92
      [] c = REPLACEMENT -> 65533
      [] c = EMOJI -> 127881
      [] OTHER     -> 97

Some(x) == <<x>>
None == <<>>

\* s1 \o s2 \o ... for a sequence of strings
RECURSIVE Concat(_)
Concat(ss) == IF ss = <<>> THEN <<>> ELSE Head(ss) \o Concat(Tail(ss))

\* [&str]::join(sep)
RECURSIVE JoinWith(_, _)
JoinWith(ws, sep) ==
    IF ws = <<>> THEN <<>>
    ELSE IF Len(ws) = 1 THEN Head(ws)
    ELSE Head(ws) \o sep \o JoinWith(Tail(ws), sep)

IsPrefix(p, s) == Len(p) <= Len(s) /\ SubSeq(s, 1, Len(p)) = p

(***************************************************************************)
(* str::trim: strips leading and trailing white space                      *)
(***************************************************************************)
IsWhitespace(c) == c \in {SP, TAB, LF, CR}

RECURSIVE TrimStart(_)
TrimStart(s) ==
    IF s # <<>> /\ IsWhitespace(Head(s)) THEN TrimStart(Tail(s)) ELSE s

RECURSIVE TrimEnd(_)
TrimEnd(s) ==
    IF s # <<>> /\ IsWhitespace(s[Len(s)])
    THEN TrimEnd(SubSeq(s, 1, Len(s) - 1))
    ELSE s

Trim(s) == TrimEnd(TrimStart(s))

(***************************************************************************)
(* str::to_lowercase on the words the inputs use                           *)
(***************************************************************************)
LowerTok(c) ==
    CASE c = "CD"     -> "cd"
      [] c = "SUDO"   -> "sudo"
      [] c = "Su"     -> "su"
      [] c = "PassWd" -> "passwd"
      [] c = "PWD"    -> "pwd"
      [] c = "Foo"    -> "foo"
      [] OTHER        -> c

to_lowercase(s) == [i \in 1..Len(s) |-> LowerTok(s[i])]

(***************************************************************************)
(* shlex::split (the call at ws_logic.rs:141): POSIX-like word splitting.  *)
(* Result: [ok |-> TRUE, words |-> <<...>>] or [ok |-> FALSE] (None).      *)
(***************************************************************************)
ShlexSpace(c) == c \in {SP, TAB, LF}

\* inside '...': everything up to the closing quote is literal
RECURSIVE ParseSingle(_, _)
ParseSingle(rest, acc) ==
    IF rest = <<>> THEN [ok |-> FALSE]
    ELSE IF Head(rest) = SQ THEN [ok |-> TRUE, acc |-> acc, rest |-> Tail(rest)]
    ELSE ParseSingle(Tail(rest), Append(acc, Head(rest)))

\* inside "...": backslash escapes only ", \ (and $, `), backslash-newline
\* is dropped, any other backslash pair is kept as it is
RECURSIVE ParseDouble(_, _)
ParseDouble(rest, acc) ==
    IF rest = <<>> THEN [ok |-> FALSE]
    ELSE IF Head(rest) = DQ THEN [ok |-> TRUE, acc |-> acc, rest |-> Tail(rest)]
    ELSE IF Head(rest) = BSL THEN
        IF Len(rest) < 2 THEN [ok |-> FALSE]
        ELSE IF rest[2] \in {DQ, BSL} THEN
            ParseDouble(Tail(Tail(rest)), Append(acc, rest[2]))
        ELSE IF rest[2] = LF THEN ParseDouble(Tail(Tail(rest)), acc)
        ELSE ParseDouble(Tail(Tail(rest)), acc \o <<BSL, rest[2]>>)
    ELSE ParseDouble(Tail(rest), Append(acc, Head(rest)))

\* one word, starting at a non-blank character
RECURSIVE ParseWord(_, _)
ParseWord(rest, acc) ==
    IF rest = <<>> THEN [ok |-> TRUE, acc |-> acc, rest |-> <<>>]
    ELSE IF ShlexSpace(Head(rest)) THEN
        [ok |-> TRUE, acc |-> acc, rest |-> Tail(rest)]
    ELSE IF Head(rest) = DQ THEN
        LET q == ParseDouble(Tail(rest), acc)
        IN  IF q.ok THEN ParseWord(q.rest, q.acc) ELSE [ok |-> FALSE]
    ELSE IF Head(rest) = SQ THEN
        LET q == ParseSingle(Tail(rest), acc)
        IN  IF q.ok THEN ParseWord(q.rest, q.acc) ELSE [ok |-> FALSE]
    ELSE IF Head(rest) = BSL THEN
        IF Len(rest) < 2 THEN [ok |-> FALSE]
        ELSE IF rest[2] = LF THEN ParseWord(Tail(Tail(rest)), acc)
        ELSE ParseWord(Tail(Tail(rest)), Append(acc, rest[2]))
    ELSE ParseWord(Tail(rest), Append(acc, Head(rest)))

RECURSIVE ShlexWords(_, _)
ShlexWords(rest, words) ==
    IF rest = <<>> THEN [ok |-> TRUE, words |-> words]
    ELSE IF ShlexSpace(Head(rest)) THEN ShlexWords(Tail(rest), words)
    ELSE LET w == ParseWord(rest, <<>>)
         IN  IF w.ok THEN ShlexWords(w.rest, Append(words, w.acc))
             ELSE [ok |-> FALSE]

shlex_split(s) == ShlexWords(s, <<>>)

(***************************************************************************)
(* std::path: a PathBuf is its string; components are computed from it     *)
(***************************************************************************)
\* the segments between slashes
RECURSIVE SplitSlash(_, _, _)
SplitSlash(s, cur, out) ==
    IF s = <<>> THEN Append(out, cur)
    ELSE IF Head(s) = SLASH THEN SplitSlash(Tail(s), <<>>, Append(out, cur))
    ELSE SplitSlash(Tail(s), Append(cur, Head(s)), out)

RootDir == <<SLASH>>
CurDir == <<DOT>>
ParentDir == <<DOTDOT>>

is_absolute(p) == p # <<>> /\ Head(p) = SLASH

\* Path::components: the root (if any), then the non-empty segments, with
\* every "." dropped except one that leads a relative path
Components(p) ==
    LET segs == SelectSeq(SplitSlash(p, <<>>, <<>>), LAMBDA g : g # <<>>)
        keep == { i \in 1..Len(segs) :
                    segs[i] # CurDir \/ (i = 1 /\ ~is_absolute(p)) }
        F[i \in 0..Len(segs)] ==
            IF i = 0 THEN <<>>
            ELSE IF i \in keep THEN Append(F[i - 1], segs[i]) ELSE F[i - 1]
    IN  (IF is_absolute(p) THEN <<RootDir>> ELSE <<>>) \o F[Len(segs)]

\* Path::starts_with: whole components, not characters
starts_with(p, base) == IsPrefix(Components(base), Components(p))

\* Path::join
join(base, p) ==
    IF is_absolute(p) THEN p
    ELSE IF base # <<>> /\ base[Len(base)] = SLASH THEN base \o p
    ELSE base \o <<SLASH>> \o p

\* the string of an absolute path with the given names below the root
PathOf(names) ==
    IF names = <<>> THEN <<SLASH>>
    ELSE Concat([i \in 1..Len(names) |-> <<SLASH>> \o names[i]])

\* Path::display
display(p) == p

(***************************************************************************)
(* The sandbox root and the file system the server runs on                 *)
(***************************************************************************)
Names(toks) == [i \in 1..Len(toks) |-> <<toks[i]>>]

SandboxNames == Names(<<"home", "heyeuuu", "Workspace", "secretes", "happy_birthday">>)
SANDBOX_ROOT == PathOf(SandboxNames)

\* directories, by the names below "/"
FsDirs ==
    { SubSeq(SandboxNames, 1, n) : n \in 0..Len(SandboxNames) }
    \cup { SandboxNames \o Names(<<"d">>),
           SandboxNames \o Names(<<"d", "e">>),
           Names(<<"etc">>) }

FsFiles == { SandboxNames \o Names(<<"f">>) }

\* symbolic links and their targets (which hold no further link): one
\* leaves the sandbox, one stays in it
FsLinkPaths ==
    { SandboxNames \o Names(<<"out">>), SandboxNames \o Names(<<"in">>) }

FsLinkTarget(l) ==
    IF l = SandboxNames \o Names(<<"out">>) THEN Names(<<"etc">>)
    ELSE SandboxNames \o Names(<<"d", "e">>)

\* std::fs::canonicalize on an absolute path: "." and ".." and symbolic
\* links resolved; fails when a component does not exist or when a
\* component is looked up in something that is not a directory
RECURSIVE Resolve(_, _)
Resolve(at, rest) ==
    IF rest = <<>> THEN [ok |-> TRUE, names |-> at]
    ELSE LET c == Head(rest) IN
        IF c = RootDir THEN Resolve(<<>>, Tail(rest))
        ELSE IF at \notin FsDirs THEN [ok |-> FALSE]
        ELSE IF c = CurDir THEN Resolve(at, Tail(rest))
        ELSE IF c = ParentDir THEN
            Resolve(IF at = <<>> THEN at ELSE SubSeq(at, 1, Len(at) - 1),
                    Tail(rest))
        ELSE LET child == Append(at, c) IN
            IF child \in FsLinkPaths THEN
                Resolve(<<>>, FsLinkTarget(child) \o Tail(rest))
            ELSE IF child \in FsDirs \cup FsFiles THEN
                Resolve(child, Tail(rest))
            ELSE [ok |-> FALSE]

canonicalize(p) ==
    LET r == Resolve(<<>>, Components(p))
    IN  IF r.ok THEN [ok |-> TRUE, path |-> PathOf(r.names)] ELSE [ok |-> FALSE]

\* Path::is_dir
is_dir(p) ==
    LET r == Resolve(<<>>, Components(p))
    IN  r.ok /\ r.names \in FsDirs


(***************************************************************************)
(* Output text of the handlers                                             *)
(***************************************************************************)
CRLF == <<CR, LF>>

MSG_PARSE_ERROR ==
    <<"Error: Invalid command format (unclosed quotes or invalid escapes).">> \o CRLF

MSG_PERMISSION_DENIED ==
    <<"Error: Permission denied. This command is not allowed.">> \o CRLF

MSG_ABOUT ==
    <<"This is a safe, sandboxed Rust Axum web terminal.">> \o CRLF
    \o <<"It only supports a limited set of commands to ensure safety.">> \o CRLF

MSG_CD_OUTSIDE_CANONICAL ==
    <<"Error: Cannot access path outside the sandbox.">> \o CRLF

MsgCdOutsideAbsolute(arg) ==
    <<"Error: Cannot access '">> \o arg \o <<"' outside the sandbox.">> \o CRLF

MsgCdNotDir(arg) ==
    <<"Error: '">> \o arg \o <<"' is not a directory or does not exist.">> \o CRLF

MsgPathInvalid(arg) ==
    <<"Error: Path '">> \o arg \o <<"' is invalid or does not exist.">> \o CRLF

MsgLsOutside(arg) ==
    <<"Error: Cannot access path '">> \o arg \o <<"' outside the sandbox.">> \o CRLF

MsgUnknown(command_str) == <<"Unknown command: ">> \o command_str \o CRLF

HelpLine(name, text) == <<ESC, "[32m  ", name, ESC, "[0m", text>> \o CRLF

handle_help_command ==
    CRLF \o <<"Available Safe Commands:">> \o CRLF
    \o HelpLine("help", "        - Show this help message.")
    \o HelpLine("echo <text>", " - Echoes the text you provide.")
    \o HelpLine("pwd", "         - Prints working directory.")
    \o HelpLine("cd <path>", "   - Change current directory.")
    \o HelpLine("ls", "          - List directory contents.")
    \o HelpLine("whoami", "      - Print the user name.")
    \o HelpLine("about", "       - About this terminal.")
    \o CRLF \o <<"Custom Commands:">> \o CRLF
    \o HelpLine("birthday", "    - Check if it's your birthday.")
    \o HelpLine("heyeuuu", "     - A special greeting.")
    \o HelpLine("creeper", "     - A friendly sound.")

handle_echo_command(args) == JoinWith(args, <<SP>>) \o CRLF

handle_pwd_command(current_dir) == display(current_dir) \o CRLF

handle_birthday_command(is_birthday) ==
    IF is_birthday THEN <<"Happy Birthday, heyeuuu! ", EMOJI, EMOJI>> \o CRLF
    ELSE <<"It's not my birthday yet. Is it yours?">> \o CRLF

handle_heyeuuu_command(args) ==
    LET name == IF args = <<>> THEN <<"heyeuuu">> ELSE args[1]
    IN  <<"Suki~~~Bless for ">> \o name \o <<"~~~">> \o CRLF

handle_creeper_command ==
    <<"Sss... Boom! (just kidding, I'm friendly) ">> \o CRLF

(***************************************************************************)
(* cd: the result, and the file-system calls made on the way               *)
(***************************************************************************)
FsCall(op, path) == [op |-> op, path |-> path]

CdResult(output, new_cwd, fs_ops) ==
    [output |-> output, new_cwd |-> new_cwd, fs_ops |-> fs_ops]

\* handle_cd_command without the second look at the canonical path: a
\* directory is accepted wherever the links lead
handle_cd_command_NoRecheck(args, current_dir) ==
    IF args = <<>> THEN CdResult(<<>>, Some(SANDBOX_ROOT), <<>>)
    ELSE
      LET target_path_str == args[1]
          target_path == target_path_str
      IN
        IF is_absolute(target_path) /\ ~starts_with(target_path, SANDBOX_ROOT)
        THEN CdResult(MsgCdOutsideAbsolute(target_path_str), None, <<>>)
        ELSE
          LET resolved_path ==
                  IF is_absolute(target_path) THEN target_path
                  ELSE join(current_dir, target_path)
              c == canonicalize(resolved_path)
              canon_op == FsCall("canonicalize", resolved_path)
          IN
            IF c.ok THEN
              LET ops == <<canon_op, FsCall("is_dir", c.path)>> IN
                IF is_dir(c.path)
                THEN CdResult(<<>>, Some(c.path), ops)
                ELSE CdResult(MsgCdNotDir(target_path_str), None, ops)
            ELSE CdResult(MsgPathInvalid(target_path_str), None, <<canon_op>>)

\* handle_cd_command without the early rejection of absolute paths: every
\* path is canonicalized first, as handle_ls_command does
handle_cd_command_NoEarlyReject(args, current_dir) ==
    IF args = <<>> THEN CdResult(<<>>, Some(SANDBOX_ROOT), <<>>)
    ELSE
      LET target_path_str == args[1]
          target_path == target_path_str
          resolved_path ==
              IF is_absolute(target_path) THEN target_path
              ELSE join(current_dir, target_path)
          c == canonicalize(resolved_path)
          canon_op == FsCall("canonicalize", resolved_path)
      IN
        IF c.ok THEN
          LET ops == <<canon_op, FsCall("is_dir", c.path)>> IN
            IF is_dir(c.path) /\ starts_with(c.path, SANDBOX_ROOT)
            THEN CdResult(<<>>, Some(c.path), ops)
            ELSE IF ~starts_with(c.path, SANDBOX_ROOT)
            THEN CdResult(MsgCdOutsideAbsolute(target_path_str), None, ops)
            ELSE CdResult(MsgCdNotDir(target_path_str), None, ops)
        ELSE CdResult(MsgPathInvalid(target_path_str), None, <<canon_op>>)

\* the path with "." and ".." removed by name alone, no file system asked
RECURSIVE LexicalNames(_, _)
LexicalNames(at, rest) ==
    IF rest = <<>> THEN at
    ELSE LET c == Head(rest) IN
        IF c = RootDir THEN LexicalNames(<<>>, Tail(rest))
        ELSE IF c = CurDir THEN LexicalNames(at, Tail(rest))
        ELSE IF c = ParentDir THEN
            LexicalNames(IF at = <<>> THEN at ELSE SubSeq(at, 1, Len(at) - 1),
                         Tail(rest))
        ELSE LexicalNames(Append(at, c), Tail(rest))

LexicalPath(p) == PathOf(LexicalNames(<<>>, Components(p)))

\* handle_cd_command rejecting by name a path that leaves the sandbox, before
\* the file system is asked whether it exists
handle_cd_command_LexicalCheck(args, current_dir) ==
    IF args = <<>> THEN CdResult(<<>>, Some(SANDBOX_ROOT), <<>>)
    ELSE
      LET target_path_str == args[1]
          target_path == target_path_str
          resolved_path ==
              IF is_absolute(target_path) THEN target_path
              ELSE join(current_dir, target_path)
      IN
        IF is_absolute(target_path) /\ ~starts_with(target_path, SANDBOX_ROOT)
        THEN CdResult(MsgCdOutsideAbsolute(target_path_str), None, <<>>)
        ELSE IF ~starts_with(LexicalPath(resolved_path), SANDBOX_ROOT)
        THEN CdResult(MSG_CD_OUTSIDE_CANONICAL, None, <<>>)
        ELSE
          LET c == canonicalize(resolved_path)
              canon_op == FsCall("canonicalize", resolved_path)
          IN
            IF c.ok THEN
              LET ops == <<canon_op, FsCall("is_dir", c.path)>> IN
                IF is_dir(c.path) /\ starts_with(c.path, SANDBOX_ROOT)
                THEN CdResult(<<>>, Some(c.path), ops)
                ELSE IF ~starts_with(c.path, SANDBOX_ROOT)
                THEN CdResult(MSG_CD_OUTSIDE_CANONICAL, None, ops)
                ELSE CdResult(MsgCdNotDir(target_path_str), None, ops)
            ELSE CdResult(MsgPathInvalid(target_path_str), None, <<canon_op>>)

\* handle_cd_command keeping the path as it was joined, "." and ".." and
\* links included, once the canonical path has passed the checks
handle_cd_command_KeepsJoined(args, current_dir) ==
    IF args = <<>> THEN CdResult(<<>>, Some(SANDBOX_ROOT), <<>>)
    ELSE
      LET target_path_str == args[1]
          target_path == target_path_str
      IN
        IF is_absolute(target_path) /\ ~starts_with(target_path, SANDBOX_ROOT)
        THEN CdResult(MsgCdOutsideAbsolute(target_path_str), None, <<>>)
        ELSE
          LET resolved_path ==
                  IF is_absolute(target_path) THEN target_path
                  ELSE join(current_dir, target_path)
              c == canonicalize(resolved_path)
              canon_op == FsCall("canonicalize", resolved_path)
          IN
            IF c.ok THEN
              LET ops == <<canon_op, FsCall("is_dir", c.path)>> IN
                IF is_dir(c.path) /\ starts_with(c.path, SANDBOX_ROOT)
                THEN CdResult(<<>>, Some(resolved_path), ops)
                ELSE IF ~starts_with(c.path, SANDBOX_ROOT)
                THEN CdResult(MSG_CD_OUTSIDE_CANONICAL, None, ops)
                ELSE CdResult(MsgCdNotDir(target_path_str), None, ops)
            ELSE CdResult(MsgPathInvalid(target_path_str), None, <<canon_op>>)

handle_cd_command(args, current_dir) ==
    IF args = <<>> THEN CdResult(<<>>, Some(SANDBOX_ROOT), <<>>)
    ELSE
      LET target_path_str == args[1]
          target_path == target_path_str
      IN
        IF is_absolute(target_path) /\ ~starts_with(target_path, SANDBOX_ROOT)
        THEN CdResult(MsgCdOutsideAbsolute(target_path_str), None, <<>>)
        ELSE
          LET resolved_path ==
                  IF is_absolute(target_path) THEN target_path
                  ELSE join(current_dir, target_path)
              c == canonicalize(resolved_path)
              canon_op == FsCall("canonicalize", resolved_path)
          IN
            IF c.ok THEN
              LET ops == <<canon_op, FsCall("is_dir", c.path)>> IN
                IF is_dir(c.path) /\ starts_with(c.path, SANDBOX_ROOT)
                THEN CdResult(<<>>, Some(c.path), ops)
                ELSE IF ~starts_with(c.path, SANDBOX_ROOT)
                THEN CdResult(MSG_CD_OUTSIDE_CANONICAL, None, ops)
                ELSE CdResult(MsgCdNotDir(target_path_str), None, ops)
            ELSE CdResult(MsgPathInvalid(target_path_str), None, <<canon_op>>)


(***************************************************************************)
(* Subprocesses (tokio::process::Command::output): what the program does   *)
(* is not decided by the server, so a handler that runs one has a set of   *)
(* possible results, one for each outcome.                                 *)
(***************************************************************************)
BAD_UTF8 == "<invalid utf-8>"

from_utf8_lossy(bytes) ==
    [i \in 1..Len(bytes) |-> IF bytes[i] = BAD_UTF8 THEN REPLACEMENT ELSE bytes[i]]

Exited(success, stdout, stderr) ==
    [kind |-> "exited", success |-> success, stdout |-> stdout, stderr |-> stderr]

SpawnFailed(error_kind, error) ==
    [kind |-> "spawn_failed", error_kind |-> error_kind, error |-> error]

ProcOutcomes ==
    { Exited(TRUE, <<>>, <<>>),
      Exited(TRUE, <<"f", DEL, BAD_UTF8, LF>>, <<>>),
      Exited(FALSE, <<>>, <<"ls: cannot open directory", LF>>),
      SpawnFailed("NotFound", <<"No such file or directory (os error 2)">>),
      SpawnFailed("PermissionDenied", <<"Permission denied (os error 13)">>) }

Spawn(program, cwd, args) == [program |-> program, cwd |-> cwd, args |-> args]

(***************************************************************************)
(* ls                                                                      *)
(***************************************************************************)
StartsWithDash(arg) == arg # <<>> /\ Head(arg) = DASH

\* LsScan without the sandbox check: every path that resolves is passed on
RECURSIVE LsScan_NoSandboxCheck(_, _, _, _, _)
LsScan_NoSandboxCheck(args, current_dir, flags, safe_args, ops) ==
    IF args = <<>> THEN
        [rejected |-> FALSE, flags |-> flags, safe_args |-> safe_args, ops |-> ops]
    ELSE
      LET arg == Head(args) IN
        IF StartsWithDash(arg) THEN
            LsScan_NoSandboxCheck(Tail(args), current_dir, Append(flags, arg),
                                  safe_args, ops)
        ELSE
          LET target_path == arg
              resolved_path ==
                  IF is_absolute(target_path) THEN target_path
                  ELSE join(current_dir, target_path)
              c == canonicalize(resolved_path)
              ops2 == Append(ops, FsCall("canonicalize", resolved_path))
          IN
            IF c.ok THEN
                LsScan_NoSandboxCheck(Tail(args), current_dir, flags,
                                      Append(safe_args, c.path), ops2)
            ELSE [rejected |-> TRUE, output |-> MsgPathInvalid(arg), ops |-> ops2]

\* the loop over the arguments: flags go to the command line as they come,
\* every other argument is canonicalized and checked against the sandbox
RECURSIVE LsScan(_, _, _, _, _)
LsScan(args, current_dir, flags, safe_args, ops) ==
    IF args = <<>> THEN
        [rejected |-> FALSE, flags |-> flags, safe_args |-> safe_args, ops |-> ops]
    ELSE
      LET arg == Head(args) IN
        IF StartsWithDash(arg) THEN
            LsScan(Tail(args), current_dir, Append(flags, arg), safe_args, ops)
        ELSE
          LET target_path == arg
              resolved_path ==
                  IF is_absolute(target_path) THEN target_path
                  ELSE join(current_dir, target_path)
              c == canonicalize(resolved_path)
              ops2 == Append(ops, FsCall("canonicalize", resolved_path))
          IN
            IF c.ok THEN
                IF starts_with(c.path, SANDBOX_ROOT) THEN
                    LsScan(Tail(args), current_dir, flags,
                           Append(safe_args, c.path), ops2)
                ELSE [rejected |-> TRUE, output |-> MsgLsOutside(arg), ops |-> ops2]
            ELSE [rejected |-> TRUE, output |-> MsgPathInvalid(arg), ops |-> ops2]

LsResult(output, fs_ops, spawned, proc) ==
    [output |-> output, fs_ops |-> fs_ops, spawned |-> spawned, proc |-> proc]

\* lines 332-344: the output for one outcome of the ls program
LsOutput(proc) ==
    IF proc.kind = "exited" THEN
        IF proc.success THEN from_utf8_lossy(proc.stdout)
        ELSE <<"Error executing ls: ">> \o from_utf8_lossy(proc.stderr) \o CRLF
    ELSE <<"Failed to execute ls command: ">> \o proc.error \o CRLF

handle_ls_command(args, current_dir) ==
    LET scanned == { LsScan(args, current_dir, <<>>, <<>>, <<>>) } IN
      UNION { IF scan.rejected
              THEN { LsResult(scan.output, scan.ops, None, None) }
              ELSE { LsResult(LsOutput(proc), scan.ops,
                              Some(Spawn("ls", current_dir,
                                         scan.flags \o scan.safe_args)),
                              Some(proc)) : proc \in ProcOutcomes }
              : scan \in scanned }

(***************************************************************************)
(* whoami                                                                  *)
(***************************************************************************)
MSG_WHOAMI_ERROR == <<"Error getting user info.">> \o CRLF

\* WhoamiOutput telling the failures apart, as LsOutput does
WhoamiOutput_Distinguishing(proc) ==
    IF proc.kind = "exited" THEN
        IF proc.success THEN from_utf8_lossy(proc.stdout)
        ELSE <<"Error getting user info: ">> \o from_utf8_lossy(proc.stderr) \o CRLF
    ELSE IF proc.error_kind = "NotFound" THEN <<"whoami: command not found">> \o CRLF
    ELSE <<"Failed to execute whoami command: ">> \o proc.error \o CRLF

WhoamiOutput(proc) ==
    IF proc.kind = "exited" /\ proc.success THEN from_utf8_lossy(proc.stdout)
    ELSE MSG_WHOAMI_ERROR

handle_whoami_command ==
    { LsResult(WhoamiOutput(proc), <<>>, Some(Spawn("whoami", None, <<>>)),
               Some(proc)) : proc \in ProcOutcomes }

(***************************************************************************)
(* process_command                                                         *)
(***************************************************************************)
CommandResult(output, new_cwd, fs_ops, spawned, proc, handler) ==
    [output |-> output, new_cwd |-> new_cwd, fs_ops |-> fs_ops,
     spawned |-> spawned, proc |-> proc, handler |-> handler]

Builtin(output, handler) ==
    { CommandResult(output, None, <<>>, None, None, handler) }

DeniedVerbs == { <<"sudo">>, <<"su">>, <<"passwd">> }

\* Dispatch naming only the lower-cased verb in the unknown-command text
Dispatch_VerbOnly(cmd, args, command_str, current_dir) ==
    CASE cmd = <<"help">>   -> Builtin(handle_help_command, "help")
      [] cmd = <<"echo">>   -> Builtin(handle_echo_command(args), "echo")
      [] cmd = <<"cd">>     ->
            { CommandResult(r.output, r.new_cwd, r.fs_ops, None, None, "cd") :
                r \in { handle_cd_command(args, current_dir) } }
      [] cmd = <<"pwd">>    -> Builtin(handle_pwd_command(current_dir), "pwd")
      [] cmd = <<"ls">>     ->
            { CommandResult(r.output, None, r.fs_ops, r.spawned, r.proc, "ls") :
                r \in handle_ls_command(args, current_dir) }
      [] cmd = <<"whoami">> ->
            { CommandResult(r.output, None, r.fs_ops, r.spawned, r.proc, "whoami") :
                r \in handle_whoami_command }
      [] cmd = <<"about">>  -> Builtin(MSG_ABOUT, "about")
      [] cmd = <<"birthday">> ->
            UNION { Builtin(handle_birthday_command(is_birthday), "birthday") :
                      is_birthday \in BOOLEAN }
      [] cmd = <<"heyeuuu">>  -> Builtin(handle_heyeuuu_command(args), "heyeuuu")
      [] cmd = <<"creeper">>  -> Builtin(handle_creeper_command, "creeper")
      [] OTHER -> Builtin(MsgUnknown(cmd), "unknown")

\* lines 173-209, the match on the verb: the results the command can have
Dispatch(cmd, args, command_str, current_dir) ==
    CASE cmd = <<"help">>   -> Builtin(handle_help_command, "help")
      [] cmd = <<"echo">>   -> Builtin(handle_echo_command(args), "echo")
      [] cmd = <<"cd">>     ->
            { CommandResult(r.output, r.new_cwd, r.fs_ops, None, None, "cd") :
                r \in { handle_cd_command(args, current_dir) } }
      [] cmd = <<"pwd">>    -> Builtin(handle_pwd_command(current_dir), "pwd")
      [] cmd = <<"ls">>     ->
            { CommandResult(r.output, None, r.fs_ops, r.spawned, r.proc, "ls") :
                r \in handle_ls_command(args, current_dir) }
      [] cmd = <<"whoami">> ->
            { CommandResult(r.output, None, r.fs_ops, r.spawned, r.proc, "whoami") :
                r \in handle_whoami_command }
      [] cmd = <<"about">>  -> Builtin(MSG_ABOUT, "about")
      [] cmd = <<"birthday">> ->
            UNION { Builtin(handle_birthday_command(is_birthday), "birthday") :
                      is_birthday \in BOOLEAN }
      [] cmd = <<"heyeuuu">>  -> Builtin(handle_heyeuuu_command(args), "heyeuuu")
      [] cmd = <<"creeper">>  -> Builtin(handle_creeper_command, "creeper")
      [] OTHER -> Builtin(MsgUnknown(command_str), "unknown")

\* process_command with the denied verbs compared before lower-casing
process_command_CaseSensitive(command_str, current_dir) ==
    UNION { IF ~parsed_command.ok THEN Builtin(MSG_PARSE_ERROR, "none")
            ELSE IF parsed_command.words = <<>> THEN Builtin(<<>>, "none")
            ELSE IF parsed_command.words[1] \in DeniedVerbs
            THEN Builtin(MSG_PERMISSION_DENIED, "none")
            ELSE Dispatch(to_lowercase(parsed_command.words[1]),
                          Tail(parsed_command.words), command_str, current_dir)
            : parsed_command \in { shlex_split(command_str) } }

\* process_command looking at the first word of the raw line when the line
\* does not parse, so that a denied verb is refused as such
process_command_VerbBeforeParse(command_str, current_dir) ==
    UNION { IF ~parsed_command.ok THEN
                IF to_lowercase(<<Head(command_str)>>) \in DeniedVerbs
                THEN Builtin(MSG_PERMISSION_DENIED, "none")
                ELSE Builtin(MSG_PARSE_ERROR, "none")
            ELSE IF parsed_command.words = <<>> THEN Builtin(<<>>, "none")
            ELSE IF to_lowercase(parsed_command.words[1]) \in DeniedVerbs
            THEN Builtin(MSG_PERMISSION_DENIED, "none")
            ELSE Dispatch(to_lowercase(parsed_command.words[1]),
                          Tail(parsed_command.words), command_str, current_dir)
            : parsed_command \in { shlex_split(command_str) } }

\* lines 140-171, then the match
process_command(command_str, current_dir) ==
    UNION { IF ~parsed_command.ok THEN Builtin(MSG_PARSE_ERROR, "none")
            ELSE IF parsed_command.words = <<>> THEN Builtin(<<>>, "none")
            ELSE IF to_lowercase(parsed_command.words[1]) \in DeniedVerbs
            THEN Builtin(MSG_PERMISSION_DENIED, "none")
            ELSE Dispatch(to_lowercase(parsed_command.words[1]),
                          Tail(parsed_command.words), command_str, current_dir)
            : parsed_command \in { shlex_split(command_str) } }

(***************************************************************************)
(* The earlier revision kept in main.rs: process_command on the raw line,   *)
(* with no parser, no directory and no subprocess                           *)
(***************************************************************************)
\* str::splitn(2, ' '): the text before the first space, and the rest
RECURSIVE SplitFirstSpace(_, _)
SplitFirstSpace(s, acc) ==
    IF s = <<>> THEN <<acc>>
    ELSE IF Head(s) = SP THEN <<acc, Tail(s)>>
    ELSE SplitFirstSpace(Tail(s), Append(acc, Head(s)))

LEGACY_HELP ==
    CRLF \o <<"Available Commands (handled by backend):">> \o CRLF
    \o HelpLine("help", "        - Show list of available commands")
    \o HelpLine("echo <text>", " - Echoes the text you provide")
    \o HelpLine("about", "       - About this backend")
    \o HelpLine("pwd", "         - Prints working directory (simulated)")

LEGACY_ABOUT ==
    <<"This is the Rust Axum backend for your Web terminal.">> \o CRLF
    \o <<"It handles commands sent via WebSocket.">> \o CRLF

legacy_process_command(line) ==
    LET parts == SplitFirstSpace(line, <<>>)
        command == to_lowercase(parts[1])
    IN  CASE command = <<"help">>  -> LEGACY_HELP
          [] command = <<"echo">>  ->
                (IF Len(parts) > 1 THEN parts[2] ELSE <<>>) \o CRLF
          [] command = <<"pwd">>   -> <<"todo">>
          [] command = <<>>        -> <<>>
          [] command = <<"birthday">> ->
                <<"Happy Birthday ohhhhhyeahhhhhhh! ", EMOJI, EMOJI>>
          [] command = <<"about">>   -> LEGACY_ABOUT
          [] command = <<"heyeuuu">> -> <<"suki~~~Bless for sheeeeee~">>
          [] command = <<"creeper">> -> <<"suki~">>
          [] OTHER -> <<"Unknown command: ">> \o command \o CRLF

(***************************************************************************)
(* clean_output                                                            *)
(***************************************************************************)
\* the closure given to filter: the last disjunct is the literal `true`
CleanFilter(c) ==
    \/ (CharCode(c) >= 32 /\ CharCode(c) <= 126)
    \/ c = LF
    \/ c = CR
    \/ TRUE

clean_output(s) == SelectSeq(s, CleanFilter)

(***************************************************************************)
(* The command lines a client sends                                        *)
(***************************************************************************)
Line(verb, rest) == <<verb>> \o rest

LinesBuiltin ==
    { <<>>, <<SP, SP>>, <<"help">>, <<"about">>, <<"creeper">>, <<"birthday">>,
      <<"heyeuuu", SP, "abc">>,
      <<"echo">>, <<"echo", SP, "abc", SP, SP, "foo">>,
      <<"echo", SP, DEL, "abc", BEL>>, <<"echo", SP, ESC, "[31m", SP, CR, LF, "abc">>,
      <<"pwd">>, <<SP, "PWD", SP, "abc", CR, LF>>, <<"whoami">> }

LinesMalformed ==
    { <<"echo", SP, DQ, "abc">>, <<"pwd", BSL>>, <<"cd", SP, SQ, "d">>,
      <<"sudo", SP, DQ, "abc">>, <<"ls", SP, DASH, "l", SP, DQ, "d">> }

LinesDenied ==
    { <<"sudo", SP, "ls">>, <<"SUDO", SP, "cd", SP, "d">>, <<"su">>,
      <<"Su", SP, DASH>>, <<"PassWd", SP, "abc">>, <<DQ, "sudo", DQ, SP, "cd">> }

LinesUnknown ==
    { <<"foo">>, <<SP, "Foo", SP, SP, "d", SP>>, <<"sudoers">>, <<DQ, DQ>>,
      <<"cd", BSL, SP, "d">> }

CdArgs ==
    { <<"d">>, <<"d", SLASH, "e">>, <<DOTDOT>>, <<DOT>>,
      <<DOTDOT, SLASH, DOTDOT>>,
      <<DOTDOT, SLASH, DOTDOT, SLASH, DOTDOT, SLASH, "etc">>,
      <<SLASH, "etc">>, <<SLASH, "nx">>,
      SANDBOX_ROOT, SANDBOX_ROOT \o <<SLASH, "d">>,
      SANDBOX_ROOT \o <<SLASH, DOTDOT>>,
      SANDBOX_ROOT \o <<"2">>,
      <<"out">>, <<"in">>, <<"f">>, <<"nx">>, <<DQ, DQ>>,
      <<"d", SP, "nx">> }

LinesCd == { <<"cd">>, <<"CD", SP, "d">> } \cup { Line("cd", <<SP>> \o a) : a \in CdArgs }

LsArgs ==
    { <<DASH, "l">>, <<"d">>, <<DOTDOT>>, <<SLASH, "etc">>, <<SLASH, "nx">>,
      <<"out">>, <<DASH, "l", SP, "d", SP, "f">>,
      <<"d", SP, DASH, "a", SP, SLASH, "etc">> }

LinesLs == { <<"ls">> } \cup { Line("ls", <<SP>> \o a) : a \in LsArgs }

Lines ==
    LinesBuiltin \cup LinesMalformed \cup LinesDenied \cup LinesUnknown
    \cup LinesCd \cup LinesLs


(***************************************************************************)
(* The session: handle_socket                                              *)
(***************************************************************************)
MaxMsgs == 3

VARIABLES
    pc,            \* where handle_socket is: "welcome", "recv", "send", "closed"
    current_dir,   \* the session's current directory (a PathBuf)
    pending,       \* response_to_send, built and not yet handed to the sink
    turn,          \* the last text message and what process_command made of it
    nread,         \* messages taken from the receiver so far
    ntext,         \* text messages among them
    event,         \* the last thing the transport did
    sent_ids,      \* the frames put on the wire, in order: 0 is the welcome,
                   \* n > 0 the response to the n-th message read
    first_sent,    \* the first frame put on the wire
    last_sent,     \* the latest frame put on the wire
    last_cwd_sent  \* the latest cwd_update put on the wire

vars == <<pc, current_dir, pending, turn, nread, ntext, event,
          sent_ids, first_sent, last_sent, last_cwd_sent>>

WebSocketResponse(output, cwd_update) ==
    [output |-> output, cwd_update |-> cwd_update]

WelcomeText(dir) ==
    <<"Welcome to the Rust Web Terminal Backend!">> \o CRLF
    \o <<"Current directory: ">> \o display(dir) \o CRLF
    \o <<"Type ", DQ, "help", DQ, " (or any command) and press Enter.">> \o CRLF

welcome_response ==
    WebSocketResponse(Some(clean_output(WelcomeText(SANDBOX_ROOT))),
                      Some(display(SANDBOX_ROOT)))

\* the response built from a CommandResult
response_to_send(output, new_cwd) ==
    WebSocketResponse(IF output = <<>> THEN None ELSE Some(clean_output(output)),
                      IF new_cwd = None THEN None ELSE Some(display(new_cwd[1])))

NoTurn ==
    [n |-> 0, line |-> <<>>, before |-> SANDBOX_ROOT, output |-> <<>>,
     new_cwd |-> None, fs_ops |-> <<>>, spawned |-> None, handler |-> "none",
     proc |-> None]

Init ==
    /\ pc = "welcome"
    /\ current_dir = SANDBOX_ROOT
    /\ pending = None
    /\ turn = NoTurn
    /\ nread = 0
    /\ ntext = 0
    /\ event = "none"
    /\ sent_ids = <<>>
    /\ first_sent = None
    /\ last_sent = None
    /\ last_cwd_sent = None

\* putting a frame on the wire
Put(id, resp) ==
    /\ sent_ids' = Append(sent_ids, id)
    /\ first_sent' = IF sent_ids = <<>> THEN Some(resp) ELSE first_sent
    /\ last_sent' = Some(resp)
    /\ last_cwd_sent' =
          IF resp.cwd_update = None THEN last_cwd_sent ELSE resp.cwd_update

WireUnchanged == UNCHANGED <<sent_ids, first_sent, last_sent, last_cwd_sent>>

\* SendWelcome going on to the loop when the send has failed
SendWelcome_IgnoreFailure ==
    /\ pc = "welcome"
    /\ \E ok \in BOOLEAN :
          IF ok
          THEN /\ Put(0, welcome_response)
               /\ event' = "sent"
          ELSE /\ WireUnchanged
               /\ event' = "write_err"
    /\ pc' = "recv"
    /\ UNCHANGED <<current_dir, pending, turn, nread, ntext>>

\* lines 66-83: the welcome is sent; if the send fails the function returns
SendWelcome ==
    /\ pc = "welcome"
    /\ \E ok \in BOOLEAN :
          IF ok
          THEN /\ Put(0, welcome_response)
               /\ pc' = "recv"
               /\ event' = "sent"
          ELSE /\ WireUnchanged
               /\ pc' = "closed"
               /\ event' = "write_err"
    /\ UNCHANGED <<current_dir, pending, turn, nread, ntext>>

\* RecvText taking the next message while a response is still to be sent
RecvText_Overlapping ==
    /\ pc \in {"recv", "send"}
    /\ nread < MaxMsgs
    /\ \E text \in Lines :
          \E r \in process_command(Trim(text), current_dir) :
            /\ current_dir' = IF r.new_cwd # None THEN r.new_cwd[1] ELSE current_dir
            /\ pending' = Some(response_to_send(r.output, r.new_cwd))
            /\ turn' = [n |-> nread + 1, line |-> text, before |-> current_dir,
                        output |-> r.output, new_cwd |-> r.new_cwd,
                        fs_ops |-> r.fs_ops, spawned |-> r.spawned,
                        proc |-> r.proc, handler |-> r.handler]
    /\ nread' = nread + 1
    /\ ntext' = ntext + 1
    /\ event' = "text"
    /\ pc' = "send"
    /\ WireUnchanged

\* RecvText leaving the loop when the command line does not parse
RecvText_FatalParseError ==
    /\ pc = "recv"
    /\ nread < MaxMsgs
    /\ \E text \in Lines :
          \E r \in process_command(Trim(text), current_dir) :
            /\ current_dir' = IF r.new_cwd # None THEN r.new_cwd[1] ELSE current_dir
            /\ pending' = Some(response_to_send(r.output, r.new_cwd))
            /\ turn' = [n |-> nread + 1, line |-> text, before |-> current_dir,
                        output |-> r.output, new_cwd |-> r.new_cwd,
                        fs_ops |-> r.fs_ops, spawned |-> r.spawned,
                        proc |-> r.proc, handler |-> r.handler]
            /\ pc' = IF r.output = MSG_PARSE_ERROR THEN "closed" ELSE "send"
    /\ nread' = nread + 1
    /\ ntext' = ntext + 1
    /\ event' = "text"
    /\ WireUnchanged

\* RecvText with a pwd that puts the session back at the sandbox root
RecvText_PwdResets ==
    /\ pc = "recv"
    /\ nread < MaxMsgs
    /\ \E text \in Lines :
          \E r \in process_command(Trim(text), current_dir) :
            /\ current_dir' = IF r.handler = "pwd" THEN SANDBOX_ROOT
                              ELSE IF r.new_cwd # None THEN r.new_cwd[1]
                              ELSE current_dir
            /\ pending' = Some(response_to_send(r.output, r.new_cwd))
            /\ turn' = [n |-> nread + 1, line |-> text, before |-> current_dir,
                        output |-> r.output, new_cwd |-> r.new_cwd,
                        fs_ops |-> r.fs_ops, spawned |-> r.spawned,
                        proc |-> r.proc, handler |-> r.handler]
    /\ nread' = nread + 1
    /\ ntext' = ntext + 1
    /\ event' = "text"
    /\ pc' = "send"
    /\ WireUnchanged

\* lines 88-107: a text message is read, the command processed, the
\* directory updated and the response built
RecvText ==
    /\ pc = "recv"
    /\ nread < MaxMsgs
    /\ \E text \in Lines :
          \E r \in process_command(Trim(text), current_dir) :
            /\ current_dir' = IF r.new_cwd # None THEN r.new_cwd[1] ELSE current_dir
            /\ pending' = Some(response_to_send(r.output, r.new_cwd))
            /\ turn' = [n |-> nread + 1, line |-> text, before |-> current_dir,
                        output |-> r.output, new_cwd |-> r.new_cwd,
                        fs_ops |-> r.fs_ops, spawned |-> r.spawned,
                        proc |-> r.proc, handler |-> r.handler]
    /\ nread' = nread + 1
    /\ ntext' = ntext + 1
    /\ event' = "text"
    /\ pc' = "send"
    /\ WireUnchanged

\* SendResponse sending nothing when both fields are None
SendResponse_SuppressEmpty ==
    /\ pc = "send"
    /\ \E ok \in BOOLEAN :
          IF pending[1] = WebSocketResponse(None, None)
          THEN /\ WireUnchanged
               /\ pc' = "recv"
               /\ event' = "sent"
          ELSE IF ok
          THEN /\ Put(turn.n, pending[1])
               /\ pc' = "recv"
               /\ event' = "sent"
          ELSE /\ WireUnchanged
               /\ pc' = "closed"
               /\ event' = "write_err"
    /\ pending' = None
    /\ UNCHANGED <<current_dir, turn, nread, ntext>>

\* SendResponse leaving the cwd_update out of the Response it sends
SendResponse_DropsCwd ==
    /\ pc = "send"
    /\ \E ok \in BOOLEAN :
          IF ok
          THEN /\ Put(turn.n, WebSocketResponse(pending[1].output, None))
               /\ pc' = "recv"
               /\ event' = "sent"
          ELSE /\ WireUnchanged
               /\ pc' = "closed"
               /\ event' = "write_err"
    /\ pending' = None
    /\ UNCHANGED <<current_dir, turn, nread, ntext>>

\* lines 109-117: the response is sent; if the send fails the loop is left
SendResponse ==
    /\ pc = "send"
    /\ \E ok \in BOOLEAN :
          IF ok
          THEN /\ Put(turn.n, pending[1])
               /\ pc' = "recv"
               /\ event' = "sent"
          ELSE /\ WireUnchanged
               /\ pc' = "closed"
               /\ event' = "write_err"
    /\ pending' = None
    /\ UNCHANGED <<current_dir, turn, nread, ntext>>

\* RecvIgnored putting the session back at the sandbox root
RecvIgnored_ResetsDir ==
    /\ pc = "recv"
    /\ nread < MaxMsgs
    /\ \E kind \in {"pong", "other"} : event' = kind
    /\ nread' = nread + 1
    /\ current_dir' = SANDBOX_ROOT
    /\ UNCHANGED <<pc, pending, turn, ntext>>
    /\ WireUnchanged

\* RecvIgnored answering the message with a Response that holds nothing
RecvIgnored_Replies ==
    /\ pc = "recv"
    /\ nread < MaxMsgs
    /\ \E kind \in {"pong", "other"} : event' = kind
    /\ nread' = nread + 1
    /\ Put(nread + 1, WebSocketResponse(None, None))
    /\ UNCHANGED <<pc, current_dir, pending, turn, ntext>>

\* lines 119-121 and 126-128: a pong, or a ping or binary message: nothing
\* is done and the loop goes on
RecvIgnored ==
    /\ pc = "recv"
    /\ nread < MaxMsgs
    /\ \E kind \in {"pong", "other"} : event' = kind
    /\ nread' = nread + 1
    /\ UNCHANGED <<pc, current_dir, pending, turn, ntext>>
    /\ WireUnchanged

\* RecvClose going on with the loop
RecvClose_Continue ==
    /\ pc = "recv"
    /\ nread < MaxMsgs
    /\ nread' = nread + 1
    /\ event' = "close"
    /\ UNCHANGED <<pc, current_dir, pending, turn, ntext>>
    /\ WireUnchanged

\* lines 122-125: a close message: the loop is left
RecvClose ==
    /\ pc = "recv"
    /\ nread < MaxMsgs
    /\ nread' = nread + 1
    /\ event' = "close"
    /\ pc' = "closed"
    /\ UNCHANGED <<current_dir, pending, turn, ntext>>
    /\ WireUnchanged

\* lines 130-133: the receiver yields an error: the loop is left
RecvError ==
    /\ pc = "recv"
    /\ event' = "read_err"
    /\ pc' = "closed"
    /\ UNCHANGED <<current_dir, pending, turn, nread, ntext>>
    /\ WireUnchanged

\* line 85: the receiver yields None (the stream has ended): the loop ends
RecvEnd ==
    /\ pc = "recv"
    /\ event' = "eof"
    /\ pc' = "closed"
    /\ UNCHANGED <<current_dir, pending, turn, nread, ntext>>
    /\ WireUnchanged

Next ==
    \/ SendWelcome
    \/ RecvText
    \/ SendResponse
    \/ RecvIgnored
    \/ RecvClose
    \/ RecvError
    \/ RecvEnd

Spec == Init /\ [][Next]_vars

\* the session states of the design: Open until the loop is left
State == IF pc = "closed" THEN "Closed" ELSE "Open"


(***************************************************************************)
(* Properties                                                              *)
(***************************************************************************)
HadTurn == turn.n > 0

\* the words of the last command line, as process_command saw them
TurnParse == shlex_split(Trim(turn.line))
TurnParsed == HadTurn /\ TurnParse.ok /\ TurnParse.words # <<>>
TurnVerb == to_lowercase(TurnParse.words[1])
TurnArgs == Tail(TurnParse.words)

\* the response of the last turn is the latest frame on the wire
TurnAnswered ==
    HadTurn /\ sent_ids # <<>> /\ sent_ids[Len(sent_ids)] = turn.n

\* C1: after every turn the current directory is the sandbox root or a
\* descendant of it, and a cd that is rejected (it yields no new directory)
\* leaves the current directory as it was before that cd.
C1_CwdStaysInSandbox ==
    /\ starts_with(current_dir, SANDBOX_ROOT)
    /\ (HadTurn /\ turn.handler = "cd" /\ turn.new_cwd = None)
          => current_dir = turn.before
    /\ (HadTurn /\ turn.new_cwd # None)
          => (turn.handler = "cd" /\ current_dir = turn.new_cwd[1])

\* a cd that resolves to a directory outside the sandbox, issued below the
\* root, was rejected
C1_Witness ==
    /\ HadTurn /\ turn.handler = "cd"
    /\ turn.output = MSG_CD_OUTSIDE_CANONICAL
    /\ turn.before # SANDBOX_ROOT
    /\ current_dir = turn.before

\* C2: a cd whose first argument is an absolute path that does not start
\* with the sandbox root is rejected with the outside-sandbox error, with no
\* directory update and without any file-system call for that path.
C2_AbsoluteOutsideRejectedUntouched ==
    (/\ TurnParsed /\ TurnVerb = <<"cd">> /\ TurnArgs # <<>>
     /\ is_absolute(TurnArgs[1])
     /\ ~starts_with(TurnArgs[1], SANDBOX_ROOT))
    => /\ turn.output = MsgCdOutsideAbsolute(TurnArgs[1])
       /\ turn.new_cwd = None
       /\ turn.fs_ops = <<>>
       /\ current_dir = turn.before

\* cd to an absolute path outside the sandbox that exists as a directory
C2_Witness ==
    /\ TurnParsed /\ TurnVerb = <<"cd">> /\ TurnArgs # <<>>
    /\ is_absolute(TurnArgs[1])
    /\ ~starts_with(TurnArgs[1], SANDBOX_ROOT)
    /\ is_dir(TurnArgs[1])
    /\ TurnAnswered

\* C3: a command line whose verb (the first word the parser yields) is
\* sudo, su or passwd, in any letter case and with any arguments, yields the
\* fixed permission-denied text, changes no directory, and reaches no
\* handler, file-system call or subprocess.
C3_DeniedVerbs ==
    (TurnParsed /\ TurnVerb \in DeniedVerbs)
    => /\ turn.output = MSG_PERMISSION_DENIED
       /\ turn.new_cwd = None
       /\ current_dir = turn.before
       /\ turn.handler = "none"
       /\ turn.fs_ops = <<>>
       /\ turn.spawned = None

\* an upper-case denied verb followed by a command that would change the
\* directory
C3_Witness ==
    /\ TurnParsed /\ TurnVerb \in DeniedVerbs
    /\ TurnParse.words[1] # TurnVerb
    /\ Len(TurnArgs) >= 2
    /\ turn.output = MSG_PERMISSION_DENIED

\* C4: the first frame on the wire is the welcome Response, with the
\* greeting as output and the sandbox root as cwd_update; it is sent once,
\* before any message is read; if its send fails the session is closed and
\* has read and processed nothing.
C4_WelcomeFirst ==
    /\ sent_ids # <<>> =>
          /\ sent_ids[1] = 0
          /\ first_sent = Some(welcome_response)
          /\ first_sent[1].output = Some(WelcomeText(SANDBOX_ROOT))
          /\ first_sent[1].cwd_update = Some(SANDBOX_ROOT)
    /\ \A i \in 2..Len(sent_ids) : sent_ids[i] # 0
    /\ (nread > 0 \/ HadTurn \/ pending # None) => sent_ids # <<>>
    /\ (pc # "welcome" /\ sent_ids = <<>>) => (pc = "closed" /\ event = "write_err")

\* a command has been answered after the welcome
C4_Witness ==
    /\ Len(sent_ids) >= 2 /\ sent_ids[1] = 0 /\ sent_ids[2] = 1
    /\ first_sent = Some(welcome_response)

\* C5: turns do not overlap: every text message read has had its Response
\* sent before the next message is read, no text message has more than one
\* Response, and the Responses are on the wire in the order of the messages.
C5_TurnsSequential ==
    /\ \A i \in 1..Len(sent_ids) :
          /\ sent_ids[i] <= nread
          /\ i > 1 => sent_ids[i - 1] < sent_ids[i]
    /\ Len(sent_ids) <= 1 + ntext
    /\ pc = "recv" => (pending = None /\ Len(sent_ids) = 1 + ntext)
    /\ pc = "send" =>
          (pending # None /\ turn.n = nread /\ Len(sent_ids) = ntext)

\* two commands answered in order, with an ignored message between them
C5_Witness ==
    /\ pc = "recv"
    /\ sent_ids = <<0, 1, 3>>
    /\ ntext = 2

\* C6: Closed is terminal: once a close message has been read, or a read
\* or a write has failed, the session is Closed, and from then on it reads
\* no message, sends no Response and does not change the current directory.
FatalEvents == {"close", "read_err", "write_err", "eof"}

C6_ClosedIsTerminal ==
    /\ [](event \in FatalEvents => pc = "closed")
    /\ [][(event \in FatalEvents \/ pc = "closed")
             => /\ pc' = "closed"
                /\ nread' = nread
                /\ sent_ids' = sent_ids
                /\ last_sent' = last_sent
                /\ current_dir' = current_dir]_vars

\* the session was closed by a failed write of a Response, after a cd had
\* changed the directory
C6_Witness ==
    /\ pc = "closed" /\ event = "write_err"
    /\ HadTurn /\ ~TurnAnswered
    /\ current_dir # SANDBOX_ROOT

\* C7: no command-level failure closes the session: after a turn that ends
\* in a parse error, a sandbox violation, an invalid path, a denied verb, an
\* unknown verb or a subprocess failure the current directory is what it
\* was before the turn, the loop goes on to send the Response and then to
\* read the next message, and the session is Closed only by the transport.
ParseErrorTurn == HadTurn /\ ~TurnParse.ok
SandboxViolationTurn ==
    /\ HadTurn /\ turn.handler \in {"cd", "ls"} /\ turn.output # <<>>
    /\ \/ turn.output = MSG_CD_OUTSIDE_CANONICAL
       \/ Head(turn.output) \in {"Error: Cannot access '", "Error: Cannot access path '"}
PathInvalidTurn ==
    /\ HadTurn /\ turn.handler \in {"cd", "ls"} /\ turn.output # <<>>
    /\ Head(turn.output) \in {"Error: Path '", "Error: '"}
DeniedTurn == TurnParsed /\ TurnVerb \in DeniedVerbs
UnknownTurn == HadTurn /\ turn.handler = "unknown"
SubprocessFailureTurn ==
    /\ HadTurn /\ turn.proc # None
    /\ ~(turn.proc[1].kind = "exited" /\ turn.proc[1].success)

FailureTurn ==
    \/ ParseErrorTurn
    \/ SandboxViolationTurn
    \/ PathInvalidTurn
    \/ DeniedTurn
    \/ UnknownTurn
    \/ SubprocessFailureTurn

\* a step that reads a text message and processes it as process_command
\* prescribes, from the directory the session is in
TextProcessedNormally ==
    /\ pc' = "send"
    /\ turn'.n = nread + 1
    /\ turn'.before = current_dir
    /\ \E r \in process_command(Trim(turn'.line), current_dir) :
          /\ turn'.output = r.output
          /\ turn'.new_cwd = r.new_cwd
          /\ pending' = Some(response_to_send(r.output, r.new_cwd))
          /\ current_dir' = IF r.new_cwd # None THEN r.new_cwd[1] ELSE current_dir

C7_FailuresAreNotFatal ==
    /\ [](FailureTurn
            => /\ current_dir = turn.before
               /\ turn.new_cwd = None
               /\ event = "text" => (pc = "send" /\ pending # None)
               /\ event = "sent" => pc = "recv"
               /\ pc = "closed" => event \in FatalEvents)
    /\ [][(FailureTurn /\ event' = "text") => TextProcessedNormally]_vars

\* a command line that did not parse, sent below the root, has been answered
\* and the session is reading again
C7_Witness ==
    /\ ParseErrorTurn /\ TurnAnswered
    /\ pc = "recv" /\ nread < MaxMsgs
    /\ current_dir # SANDBOX_ROOT

\* a turn with empty output and no directory change
NoopTurn == HadTurn /\ turn.output = <<>> /\ turn.new_cwd = None

EmptyResponse == WebSocketResponse(None, None)

\* C8 (as claimed): a turn whose command yields empty output and no
\* directory change puts no message on the transport.
C8_NoopSendsNothing == NoopTurn => ~TurnAnswered

\* C8 (amended): a turn whose command yields empty output and no directory
\* change still sends one Response, with both output and cwd_update absent.
C8_NoopSendsEmptyResponse ==
    NoopTurn
    => /\ pc = "send" => pending = Some(EmptyResponse)
       /\ pc = "recv" => TurnAnswered
       /\ TurnAnswered => last_sent = Some(EmptyResponse)

\* a line of blanks only has been answered
C8_Witness ==
    /\ NoopTurn /\ TurnAnswered
    /\ turn.line # <<>> /\ Trim(turn.line) = <<>>
    /\ last_sent = Some(EmptyResponse)

\* C9: in the Response of a command turn, output is present exactly when
\* the sanitized output is not empty, and cwd_update is present only when
\* the current directory after the turn differs from the one before it.
C9_FieldsPresentOnlyOnChange ==
    TurnAnswered
    => /\ last_sent[1].output # None <=> clean_output(turn.output) # <<>>
       /\ last_sent[1].cwd_update # None => current_dir # turn.before

\* C10: the sanitizer keeps every printable ASCII character, LF and CR, and
\* removes every raw control character below 0x20 other than CR, LF and ESC,
\* and DEL; no output field of a Response holds a removed character.
SanitizerRetains(c) == (CharCode(c) >= 32 /\ CharCode(c) <= 126) \/ c \in {CR, LF}
SanitizerRemoves(c) == (CharCode(c) < 32 /\ c \notin {CR, LF, ESC}) \/ CharCode(c) = 127

C10_SanitizerStripsControls ==
    /\ HadTurn =>
          /\ SelectSeq(clean_output(turn.output), SanitizerRetains)
                = SelectSeq(turn.output, SanitizerRetains)
          /\ \A i \in 1..Len(clean_output(turn.output)) :
                ~SanitizerRemoves(clean_output(turn.output)[i])
    /\ (last_sent # None /\ last_sent[1].output # None) =>
          \A i \in 1..Len(last_sent[1].output[1]) :
             ~SanitizerRemoves(last_sent[1].output[1][i])

\* the arguments of the last ls, as handle_ls_command sorts them
LsPathArgs == SelectSeq(TurnArgs, LAMBDA a : ~StartsWithDash(a))
LsFlagArgs == SelectSeq(TurnArgs, StartsWithDash)
LsResolved(a) ==
    canonicalize(IF is_absolute(a) THEN a ELSE join(turn.before, a))
LsArgAccepted(a) ==
    LsResolved(a).ok /\ starts_with(LsResolved(a).path, SANDBOX_ROOT)

\* C11: ls validates every argument that does not start with '-' before the
\* external program is run: the program is spawned exactly when every such
\* argument resolves to a path inside the sandbox root, it is then given the
\* canonical paths (all inside the root) and the '-' arguments as they were
\* written, and when an argument is rejected nothing is spawned.
C11_LsArgsValidated ==
    /\ (HadTurn /\ turn.spawned # None /\ turn.spawned[1].program = "ls")
          => turn.handler = "ls"
    /\ (HadTurn /\ turn.handler = "ls") =>
          /\ turn.spawned # None
                <=> \A i \in 1..Len(LsPathArgs) : LsArgAccepted(LsPathArgs[i])
          /\ turn.spawned = None => turn.proc = None
          /\ turn.spawned # None =>
                LET sp == turn.spawned[1]
                    paths == SelectSeq(sp.args, LAMBDA a : ~StartsWithDash(a))
                IN  /\ sp.program = "ls"
                    /\ sp.cwd = turn.before
                    /\ SelectSeq(sp.args, StartsWithDash) = LsFlagArgs
                    /\ Len(paths) = Len(LsPathArgs)
                    /\ \A i \in 1..Len(paths) :
                          /\ paths[i] = LsResolved(LsPathArgs[i]).path
                          /\ canonicalize(paths[i]).ok
                          /\ starts_with(canonicalize(paths[i]).path, SANDBOX_ROOT)
                    /\ Len(turn.fs_ops) = Len(LsPathArgs)

\* ls with a flag and two paths inside the sandbox has run the program
C11_Witness ==
    /\ HadTurn /\ turn.handler = "ls" /\ TurnAnswered
    /\ turn.spawned # None
    /\ LsFlagArgs # <<>>
    /\ Len(LsPathArgs) >= 2

\* the three ways a subprocess can fail
FailureClass(proc) ==
    IF proc.kind = "exited" THEN (IF proc.success THEN "success" ELSE "nonzero_exit")
    ELSE IF proc.error_kind = "NotFound" THEN "not_found"
    ELSE "io_error"

\* the output the handler of the last turn gives for an outcome
TurnHandlerOutput(proc) ==
    IF turn.handler = "ls" THEN LsOutput(proc) ELSE WhoamiOutput(proc)

Contains(s, part) ==
    \E i \in 0..(Len(s) - Len(part)) : SubSeq(s, i + 1, i + Len(part)) = part

SubprocessFailed ==
    HadTurn /\ turn.proc # None /\ FailureClass(turn.proc[1]) # "success"

\* C12 (as claimed): for ls and for whoami the three failure outcomes have
\* outputs that tell them apart: a non-zero exit gives the decoded standard
\* error, a missing program a message of its own, any other spawn failure a
\* message with the cause; no two outcomes of different kinds share an output.
C12_FailureOutputsDistinguished ==
    SubprocessFailed =>
       LET proc == turn.proc[1] IN
       /\ FailureClass(proc) = "nonzero_exit"
             => Contains(turn.output, from_utf8_lossy(proc.stderr))
       /\ FailureClass(proc) = "io_error" => Contains(turn.output, proc.error)
       /\ \A other \in ProcOutcomes :
             FailureClass(other) # FailureClass(proc)
                => TurnHandlerOutput(other) # turn.output

\* C12 (amended): ls answers a non-zero exit with "Error executing ls: " and
\* the decoded standard error, and every spawn failure, a missing program
\* included, with "Failed to execute ls command: " and the cause; whoami
\* answers every failure with the one text "Error getting user info.".  No
\* failure changes the directory.
C12_SubprocessFailureOutputs ==
    SubprocessFailed =>
       LET proc == turn.proc[1] IN
       /\ turn.new_cwd = None
       /\ turn.handler \in {"ls", "whoami"}
       /\ turn.handler = "ls" =>
             /\ FailureClass(proc) = "nonzero_exit" =>
                   turn.output = <<"Error executing ls: ">>
                                   \o from_utf8_lossy(proc.stderr) \o CRLF
             /\ FailureClass(proc) \in {"not_found", "io_error"} =>
                   turn.output = <<"Failed to execute ls command: ">>
                                   \o proc.error \o CRLF
       /\ turn.handler = "whoami" => turn.output = MSG_WHOAMI_ERROR

\* whoami has been answered after the program was not found
C12_Witness ==
    /\ SubprocessFailed /\ TurnAnswered
    /\ turn.handler = "whoami"
    /\ FailureClass(turn.proc[1]) = "not_found"
    /\ last_sent[1].output = Some(MSG_WHOAMI_ERROR)

\* the verbs of the dispatch table as the design lists it, and the three
\* further verbs process_command knows
TableVerbs ==
    { <<>>, <<"help">>, <<"echo">>, <<"pwd">>, <<"cd">>, <<"ls">>, <<"whoami">>,
      <<"about">>, <<"sudo">>, <<"su">>, <<"passwd">> }
CustomVerbs == { <<"birthday">>, <<"heyeuuu">>, <<"creeper">> }

UnknownCommandResult ==
    /\ turn.output = MsgUnknown(Trim(turn.line))
    /\ turn.new_cwd = None
    /\ current_dir = turn.before

RelativeCdTurn ==
    /\ TurnParsed /\ TurnVerb = <<"cd">> /\ TurnArgs # <<>>
    /\ ~is_absolute(TurnArgs[1])

CdJoined == join(turn.before, TurnArgs[1])

\* where that path leads: the canonical path when there is one, else the
\* path with "." and ".." removed by name
CdLeadsOutside ==
    LET c == canonicalize(CdJoined) IN
      IF c.ok THEN ~starts_with(c.path, SANDBOX_ROOT)
      ELSE ~starts_with(LexicalPath(CdJoined), SANDBOX_ROOT)

StatesOutsideSandbox(output) ==
    output # <<>> /\ (\/ output = MSG_CD_OUTSIDE_CANONICAL
                      \/ Head(output) = "Error: Cannot access '")

\* C14 (as claimed): a cd with a relative path that leads outside the
\* sandbox root is answered with the outside-sandbox error and no cwd_update,
\* whether the path exists or not.
C14_RelativeEscapeSaysOutside ==
    (RelativeCdTurn /\ CdLeadsOutside)
    => /\ StatesOutsideSandbox(turn.output)
       /\ turn.new_cwd = None
       /\ TurnAnswered => last_sent[1].cwd_update = None

\* C14 (amended): a cd with a relative path that leads outside the sandbox
\* root never changes the directory and carries no cwd_update; its output is
\* the outside-sandbox error when the path exists, and the invalid-path error
\* naming the argument when it does not.
C14_RelativeEscapeRejected ==
    (RelativeCdTurn /\ CdLeadsOutside)
    => /\ turn.new_cwd = None
       /\ current_dir = turn.before
       /\ TurnAnswered => last_sent[1].cwd_update = None
       /\ canonicalize(CdJoined).ok => turn.output = MSG_CD_OUTSIDE_CANONICAL
       /\ ~canonicalize(CdJoined).ok => turn.output = MsgPathInvalid(TurnArgs[1])

\* cd ../../../etc at the sandbox root, where no such path exists, answered
C14_Witness ==
    /\ RelativeCdTurn /\ CdLeadsOutside /\ TurnAnswered
    /\ turn.before = SANDBOX_ROOT
    /\ TurnArgs[1] = <<DOTDOT, SLASH, DOTDOT, SLASH, DOTDOT, SLASH, "etc">>
    /\ ~canonicalize(CdJoined).ok
    /\ last_sent[1].output = Some(MsgPathInvalid(TurnArgs[1]))

\* a cd with a relative path that exists outside the sandbox, answered
C14_WitnessExisting ==
    /\ RelativeCdTurn /\ CdLeadsOutside /\ TurnAnswered
    /\ canonicalize(CdJoined).ok
    /\ last_sent[1].output = Some(MSG_CD_OUTSIDE_CANONICAL)

\* C15: the current directory is changed only by a successful cd: a step
\* that changes it reads a text message whose verb is cd and sets it to the
\* directory that cd yielded; a turn with any other verb, a denied or unknown
\* verb, an empty line or a parse error yields no new directory and leaves
\* it as it was, and so does every message that is not text.
C15_OnlyCdChangesDir ==
    /\ []((HadTurn /\ ~(TurnParsed /\ TurnVerb = <<"cd">>))
             => (turn.new_cwd = None /\ turn.handler # "cd"))
    /\ [][/\ current_dir' # current_dir
             => /\ event' = "text"
                /\ turn'.n = nread + 1
                /\ turn'.handler = "cd"
                /\ turn'.new_cwd = Some(current_dir')
                /\ shlex_split(Trim(turn'.line)).ok
                /\ to_lowercase(shlex_split(Trim(turn'.line)).words[1]) = <<"cd">>
          /\ (event' = "text" /\ turn'.handler # "cd")
             => (current_dir' = current_dir /\ turn'.before = current_dir)
          /\ event' # "text" => current_dir' = current_dir]_vars

\* below the sandbox root, a turn that is not a cd and then a message that is
\* not text have left the directory where it was
C15_Witness ==
    /\ event \in {"pong", "other"}
    /\ HadTurn /\ turn.handler # "cd" /\ TurnAnswered
    /\ turn.before # SANDBOX_ROOT
    /\ current_dir = turn.before

PwdTurn == HadTurn /\ turn.handler = "pwd"

\* C16: pwd yields the current directory followed by CR LF, leaves the
\* directory as it is and carries no cwd_update; a pwd that is the next text
\* message after a pwd yields the same output, and its Response is equal to
\* the Response the first one was answered with.
C16_PwdIdempotent ==
    /\ [](PwdTurn
            => /\ turn.output = display(turn.before) \o CRLF
               /\ turn.new_cwd = None
               /\ current_dir = turn.before
               /\ turn.fs_ops = <<>> /\ turn.spawned = None
               /\ TurnAnswered
                    => last_sent = Some(WebSocketResponse(Some(turn.output), None)))
    /\ [][(PwdTurn /\ event' = "text" /\ turn'.handler = "pwd")
             => /\ turn'.output = turn.output
                /\ turn'.new_cwd = None
                /\ current_dir' = current_dir
                /\ pending' = last_sent]_vars

\* below the sandbox root, a pwd is about to be answered with the very
\* Response that answered the message before it
C16_Witness ==
    /\ PwdTurn /\ pc = "send"
    /\ turn.n >= 2 /\ sent_ids[Len(sent_ids)] = turn.n - 1
    /\ pending = last_sent
    /\ pending = Some(WebSocketResponse(Some(display(current_dir) \o CRLF), None))
    /\ current_dir # SANDBOX_ROOT

\* the last turn is `cd x` with x the name of a directory (no link) in the
\* directory the session was in
CdIntoSubdirOf(t) ==
    /\ t.n > 0 /\ t.handler = "cd"
    /\ LET parsed == shlex_split(Trim(t.line)) IN
         /\ Len(parsed.words) >= 2
         /\ LET d == parsed.words[2] IN
              /\ ~is_absolute(d)
              /\ Len(Components(d)) = 1
              /\ Components(d)[1] \notin {CurDir, ParentDir}
              /\ d = Components(d)[1]
              /\ LexicalNames(<<>>, Components(t.before)) \o Components(d) \in FsDirs

CdSubdirName(t) == shlex_split(Trim(t.line)).words[2]

\* the last turn is `cd ..`
CdParentOf(t) ==
    /\ t.n > 0 /\ t.handler = "cd"
    /\ Len(shlex_split(Trim(t.line)).words) >= 2
    /\ shlex_split(Trim(t.line)).words[2] = <<DOTDOT>>

ParentOf(dir) == LexicalPath(dir \o <<SLASH, DOTDOT>>)

\* C17: cd into a subdirectory d makes pwd report the previous directory
\* with "/d" appended; cd .. below the sandbox root makes pwd report the
\* parent, so cd d followed by cd .. is back where it started; cd .. at the
\* sandbox root is rejected and pwd still reports the sandbox root.
C17_CdRoundTrip ==
    /\ [](/\ CdIntoSubdirOf(turn)
             => /\ current_dir = turn.before \o <<SLASH>> \o CdSubdirName(turn)
                /\ turn.new_cwd = Some(current_dir)
                /\ handle_pwd_command(current_dir)
                      = turn.before \o <<SLASH>> \o CdSubdirName(turn) \o CRLF
          /\ (CdParentOf(turn) /\ turn.before # SANDBOX_ROOT)
             => /\ current_dir = ParentOf(turn.before)
                /\ turn.new_cwd = Some(current_dir)
                /\ handle_pwd_command(current_dir) = ParentOf(turn.before) \o CRLF
          /\ (CdParentOf(turn) /\ turn.before = SANDBOX_ROOT)
             => /\ turn.new_cwd = None
                /\ turn.output = MSG_CD_OUTSIDE_CANONICAL
                /\ current_dir = SANDBOX_ROOT
                /\ handle_pwd_command(current_dir) = SANDBOX_ROOT \o CRLF
          /\ PwdTurn => turn.output = handle_pwd_command(current_dir))
    /\ [][(CdIntoSubdirOf(turn) /\ event' = "text" /\ CdParentOf(turn'))
             => /\ current_dir' = turn.before
                /\ handle_pwd_command(current_dir') = handle_pwd_command(turn.before)]_vars

\* cd d has been answered with the new directory and the cd .. after it is
\* about to be answered with the directory the session started in
C17_Witness ==
    /\ pc = "send" /\ CdParentOf(turn) /\ turn.n = 2
    /\ turn.before = SANDBOX_ROOT \o <<SLASH, "d">>
    /\ current_dir = SANDBOX_ROOT
    /\ last_sent = Some(WebSocketResponse(None, Some(turn.before)))
    /\ pending = Some(WebSocketResponse(None, Some(SANDBOX_ROOT)))

\* cd .. at the sandbox root has been rejected and the pwd after it reports
\* the sandbox root
C17_WitnessAtRoot ==
    /\ pc = "send" /\ PwdTurn /\ turn.n = 2
    /\ last_sent = Some(WebSocketResponse(Some(MSG_CD_OUTSIDE_CANONICAL), None))
    /\ turn.output = SANDBOX_ROOT \o CRLF

\* C18: a command line with an unterminated quote or a dangling backslash,
\* whatever its first word, yields the one-line parse-error text and no
\* directory update, and reaches no handler, file-system call or subprocess.
C18_ParseErrorHandled ==
    ParseErrorTurn
    => /\ turn.output = MSG_PARSE_ERROR
       /\ Len(SelectSeq(turn.output, LAMBDA c : c = LF)) = 1
       /\ turn.output[Len(turn.output)] = LF
       /\ turn.new_cwd = None
       /\ current_dir = turn.before
       /\ turn.handler = "none"
       /\ turn.fs_ops = <<>>
       /\ turn.spawned = None
       /\ TurnAnswered
            => last_sent = Some(WebSocketResponse(Some(MSG_PARSE_ERROR), None))

\* a line that starts with a denied verb and has an unterminated quote has
\* been answered with the parse error
C18_Witness ==
    /\ ParseErrorTurn /\ TurnAnswered
    /\ Head(Trim(turn.line)) = "sudo"
    /\ last_sent[1].output = Some(MSG_PARSE_ERROR)

IgnoredEvents == {"pong", "other"}

\* C19: a message that is neither text nor close (a pong, a ping, a binary
\* message), read while the session is Open, is answered with nothing, leaves
\* the directory and everything else of the session as it was, and leaves
\* the session Open and reading.
C19_IgnoredMessages ==
    /\ [](event \in IgnoredEvents
            => (pc = "recv" /\ pending = None /\ State = "Open"))
    /\ [][event' \in IgnoredEvents
             => /\ pc = "recv" /\ pc' = "recv"
                /\ nread' = nread + 1
                /\ sent_ids' = sent_ids
                /\ first_sent' = first_sent
                /\ last_sent' = last_sent
                /\ last_cwd_sent' = last_cwd_sent
                /\ current_dir' = current_dir
                /\ pending' = pending
                /\ turn' = turn
                /\ ntext' = ntext]_vars

\* after a cd has been answered, a message that is neither text nor close
\* has been read and the session can read the next one
C19_Witness ==
    /\ event = "other" /\ pc = "recv"
    /\ nread = 2 /\ nread < MaxMsgs
    /\ sent_ids = <<0, 1>>
    /\ turn.handler = "cd" /\ current_dir # SANDBOX_ROOT
    /\ last_cwd_sent = Some(current_dir)

\* the last turn is an ls whose first path argument is absolute and does not
\* start with the sandbox root
LsAbsoluteOutsideTurn ==
    /\ HadTurn /\ turn.handler = "ls"
    /\ LsPathArgs # <<>>
    /\ is_absolute(LsPathArgs[1])
    /\ ~starts_with(LsPathArgs[1], SANDBOX_ROOT)

\* C20: ls with an absolute path that does not start with the sandbox root
\* is answered with the outside-sandbox rejection naming the argument, the
\* same text whether that path exists or not, and runs no program.
C20_LsAbsoluteOutsideUniform ==
    LsAbsoluteOutsideTurn
    => /\ turn.output = MsgLsOutside(LsPathArgs[1])
       /\ turn.spawned = None

\* what ls answers for such a path: one text when it exists, another when
\* it does not
C20_LsRevealsExistence ==
    LsAbsoluteOutsideTurn
    => /\ turn.spawned = None
       /\ canonicalize(LsPathArgs[1]).ok => turn.output = MsgLsOutside(LsPathArgs[1])
       /\ ~canonicalize(LsPathArgs[1]).ok
             => turn.output = MsgPathInvalid(LsPathArgs[1])

\* C21: client and server agree on the directory.  Whenever the session is
\* reading (the welcome or the Response of the last turn has been sent) the
\* latest cwd_update on the wire is the text of the current directory; a step
\* that changes the current directory puts the new value in the Response of
\* that turn, and every cwd_update that is sent is the text of the directory
\* the session holds at that moment.
C21_ClientAgreesOnDir ==
    /\ [](/\ pc = "recv" => last_cwd_sent = Some(display(current_dir))
          /\ TurnAnswered => last_cwd_sent = Some(display(current_dir))
          /\ (pc = "send" /\ turn.new_cwd # None)
                => pending[1].cwd_update = Some(display(current_dir)))
    /\ [][/\ current_dir' # current_dir
             => /\ pending' # None
                /\ pending'[1].cwd_update = Some(display(current_dir'))
          /\ (sent_ids' # sent_ids /\ last_sent'[1].cwd_update # None)
             => /\ last_sent'[1].cwd_update = Some(display(current_dir'))
                /\ last_cwd_sent' = Some(display(current_dir'))
          /\ (sent_ids' # sent_ids /\ last_sent'[1].cwd_update = None)
             => last_cwd_sent = Some(display(current_dir'))]_vars

\* a cd has moved the session below the sandbox root and back to it, and
\* the latest cwd_update names the sandbox root again
C21_Witness ==
    /\ pc = "recv" /\ TurnAnswered /\ turn.n >= 2
    /\ turn.handler = "cd"
    /\ turn.before # SANDBOX_ROOT
    /\ current_dir = SANDBOX_ROOT
    /\ last_sent[1].cwd_update = Some(display(SANDBOX_ROOT))
    /\ last_cwd_sent = Some(display(current_dir))

\* a cd changed the directory and the write of its Response failed: the
\* session is Closed and the new directory was never sent
C21_WitnessFailedWrite ==
    /\ pc = "closed" /\ event = "write_err"
    /\ HadTurn /\ turn.new_cwd # None
    /\ last_cwd_sent # Some(display(current_dir))

====
